---- MODULE Spec2Model ----
(***************************************************************************)
(* Model of src/src/lib.rs: the fast Boolean ANF (Moebius) transform in    *)
(* its two instantiations, fast_bool_anf_transform_unsigned (a truth table *)
(* packed in an unsigned integer U) and fast_bool_anf_transform_bool_array *)
(* (a truth table held in a mutable slice of bool).  Each function is a    *)
(* small step machine: entry and validation, the `for` over the passes,    *)
(* the `while` over the blocks, and the inner `for` over the offsets.      *)
(* The build profile (debug_assertions, overflow-checks) is part of the    *)
(* state because it decides which checks run and how an oversized shift    *)
(* or sum behaves (panic or wrap).                                         *)
(***************************************************************************)
EXTENDS Integers, Sequences, FiniteSets

\* ------------------------------------------------------------------ bounds
\* Largest num_variables_function passed to the packed transform.
MaxVars == 4
\* Largest rule_number passed to the packed transform.
MaxRule == 255
\* Longest slice passed to the array transform.
MaxLen == 8

\* ------------------------------------------------------- program constants
\* Bit width of usize, the type of lengths, indices and of `1 << input_size`.
UsizeBits == 64
\* Bit widths size_of::<U>() << 3 of the unsigned types U the model instantiates
\* (u8 and u16).
Widths == {8, 16}

VARIABLES
    op,                     \* what the caller does: "unsigned", "bool_array", "both"
    width,                  \* size_of::<U>() << 3 of the instantiated type U
    debug_assertions,       \* cfg(debug_assertions) of the build
    overflow_checks,        \* overflow-checks of the build
    input_rule,             \* the caller's packed truth table
    input_table,            \* the caller's boolean truth table before any call
    num_variables_function, \* parameter of the packed transform
    rule_number,            \* parameter of the packed transform (current call)
    rule_truth_table,       \* the caller-owned slice, mutated in place
    input_size,             \* local of the array transform
    blocksize, final_f, source, target, i,   \* locals of the running call
    pass,                   \* position of the outer `for _ in 0..n`
    pc,                     \* position of the program
    calls,                  \* calls that have returned
    ret,                    \* value returned by the last packed call
    failure,                \* the panic that ended the program, if any
    steps,                  \* inner-loop bodies begun in the running call
    written,                \* positions written in the current pass, in order
    srcread,                \* positions read as a source in the current pass
    pass_in,                \* the table when the current pass began
    table_in                \* the table when the running call was entered

vars == <<op, width, debug_assertions, overflow_checks, input_rule, input_table,
          num_variables_function, rule_number, rule_truth_table, input_size,
          blocksize, final_f, source, target, i, pass, pc, calls, ret, failure,
          steps, written, srcread, pass_in, table_in>>

\* ------------------------------------------------- primitive integer ops
Pow2(k) == 2 ^ k

Min(a, b) == IF a < b THEN a ELSE b

\* A panic: its kind and the source line that raises it.
Panic(kind, line) == [kind |-> kind, line |-> line]

NoFailure == Panic("none", 0)

\* x << s and x >> s on a primitive of `bits` bits panic under overflow-checks
\* when s >= bits ("attempt to shift left/right with overflow").
ShiftOverflows(s, bits) == s >= bits

\* x << s without the panic: the shift amount is masked to the type's width
\* (wrapping_shl) and the bits shifted out are lost.  Every modelled operand
\* is below 2^30, so the truncation is a no-op once bits - k exceeds 30.
Shl(x, s, bits) ==
    LET k == s % bits
    IN  IF bits - k > 30 THEN x * Pow2(k) ELSE (x % Pow2(bits - k)) * Pow2(k)

\* x >> s without the panic (wrapping_shr).
Shr(x, s, bits) == x \div Pow2(s % bits)

\* x + y panics under overflow-checks when the sum does not fit
\* ("attempt to add with overflow"); no modelled sum reaches 2^30.
AddOverflows(x, y, bits) == bits <= 30 /\ x + y >= Pow2(bits)

\* x + y without the panic (wrapping_add).
Add(x, y, bits) == IF bits <= 30 THEN (x + y) % Pow2(bits) ELSE x + y

RECURSIVE BitAnd(_, _)
\* a & b
BitAnd(a, b) ==
    IF a = 0 \/ b = 0 THEN 0
    ELSE (a % 2) * (b % 2) + 2 * BitAnd(a \div 2, b \div 2)

RECURSIVE BitOr(_, _)
\* a | b
BitOr(a, b) ==
    IF a = 0 THEN b
    ELSE IF b = 0 THEN a
    ELSE (IF a % 2 = 1 \/ b % 2 = 1 THEN 1 ELSE 0) + 2 * BitOr(a \div 2, b \div 2)

\* !a on a type of `bits` bits
BitNot(a, bits) == Pow2(bits) - 1 - a

\* usize::trailing_zeros: the number of low zero bits, the full width for 0.
RECURSIVE TrailingZeros(_)
TrailingZeros(len) ==
    IF len = 0 THEN UsizeBits
    ELSE IF len % 2 = 1 THEN 0
    ELSE 1 + TrailingZeros(len \div 2)

\* ------------------------------------------ fast_bool_anf_transform_unsigned
\* Line 39: U::from(num_variables_function).unwrap() panics when n does not
\* fit in U.
CastFails(n, bits) == n >= Pow2(bits)

\* Line 42: (size_of::<U>() << 3) < (1 << num_variables_function), in usize.
NotEnoughBits(bits, n) == bits < Shl(1, n, UsizeBits)

\* Mutant of RuleNumberTooLarge: `>` for `>=`.
MutRuleNumberTooLargeStrict(rule, n, bits) == rule > Shl(1, Shl(1, n, bits), bits)

\* Line 47: rule_number >= (u1 << (u1 << unum_variables_function)), in U.
RuleNumberTooLarge(rule, n, bits) == rule >= Shl(1, Shl(1, n, bits), bits)

\* Lines 37-49: the conversions and, under debug_assertions, the two checks.
\* The panic the entry raises, or NoFailure.
UnsignedValidation(rule, n, bits, dbg, ovf) ==
    IF CastFails(n, bits) THEN Panic("cast", 39)
    ELSE IF ~dbg THEN NoFailure
    ELSE IF ovf /\ ShiftOverflows(n, UsizeBits) THEN Panic("shift_overflow", 42)
    ELSE IF NotEnoughBits(bits, n) THEN Panic("not_enough_bits", 43)
    ELSE IF ovf /\ ShiftOverflows(n, bits) THEN Panic("shift_overflow", 47)
    ELSE IF ovf /\ ShiftOverflows(Shl(1, n, bits), bits)
         THEN Panic("shift_overflow", 47)
    ELSE IF RuleNumberTooLarge(rule, n, bits) THEN Panic("rule_number_too_large", 48)
    ELSE NoFailure

\* Mutant of UnsignedLimit: the `while` runs one block too far (`<=` for `<`).
MutUnsignedLimitInclusive(n, bits) == Shl(1, n, bits) + 1

\* Line 55: the bound u1 << unum_variables_function of the `while`.
UnsignedLimit(n, bits) == Shl(1, n, bits)

\* Mutant of UnsignedTarget: the target block starts one position early.
MutUnsignedTargetOffByOne(src, bs, bits) == Add(src, bs - 1, bits)

\* Line 56: target = source + blocksize.
UnsignedTarget(src, bs, bits) == Add(src, bs, bits)

\* Lines 59-60: ((final_f >> pos) & u1) != u0.
UnsignedBit(f, pos, bits) == BitAnd(Shr(f, pos, bits), 1) # 0

\* Line 63: final_f | (u1 << pos).
SetBit(f, pos, bits) == BitOr(f, Shl(1, pos, bits))

\* Mutant of ClearBit: the bit is left as it was.
MutClearBitKeeps(f, pos, bits) == f

\* Line 65: final_f & !(u1 << pos).
ClearBit(f, pos, bits) == BitAnd(f, BitNot(Shl(1, pos, bits), bits))

\* Mutant of BoolXor: `|` for `^`.
MutBoolOr(a, b) == a \/ b

\* Line 61: f_target_i ^ f_source_i.
BoolXor(a, b) == a # b

\* Lines 58-66: one body of the inner loop, final_f afterwards.
UnsignedBody(f, src, tgt, ii, bits) ==
    LET tpos == Add(tgt, ii, bits)
        spos == Add(src, ii, bits)
    IN  IF BoolXor(UnsignedBit(f, tpos, bits), UnsignedBit(f, spos, bits))
        THEN SetBit(f, tpos, bits)
        ELSE ClearBit(f, tpos, bits)

\* Lines 58-66: the panic one body of the inner loop raises under
\* overflow-checks, or NoFailure.
UnsignedBodyFailure(src, tgt, ii, bits, ovf) ==
    IF ~ovf THEN NoFailure
    ELSE IF AddOverflows(tgt, ii, bits) THEN Panic("add_overflow", 59)
    ELSE IF ShiftOverflows(Add(tgt, ii, bits), bits) THEN Panic("shift_overflow", 59)
    ELSE IF AddOverflows(src, ii, bits) THEN Panic("add_overflow", 60)
    ELSE IF ShiftOverflows(Add(src, ii, bits), bits) THEN Panic("shift_overflow", 60)
    ELSE NoFailure

\* Mutant of UnsignedNextSource: source advances by blocksize, not by two.
MutNextSourceSingleStep(src, bs, bits) == Add(src, bs, bits)

\* Line 68: source + (blocksize << u1).
UnsignedNextSource(src, bs, bits) == Add(src, Shl(bs, 1, bits), bits)

\* Mutant of UnsignedNextBlocksize: `+ u1` for `<< u1`.
MutNextBlocksizePlusOne(bs, bits) == Add(bs, 1, bits)

\* Line 70: blocksize << u1.
UnsignedNextBlocksize(bs, bits) == Shl(bs, 1, bits)

\* The table a packed value holds, as the array transform would hold it.
BitsOf(f, n) == [p \in 0 .. Pow2(n) - 1 |-> p < 30 /\ (f \div Pow2(p)) % 2 = 1]

\* No value (nothing has been returned).
NoValue == -1

\* --------------------------------------- fast_bool_anf_transform_bool_array
\* rule_truth_table.len()
Length(t) == Cardinality(DOMAIN t)

\* Mutant of InvalidLength: the length is only required to be a multiple.
MutInvalidLengthMultiple(len, isz) == len % Shl(1, isz, UsizeBits) # 0

\* Line 93: rule_truth_table.len() != 1 << input_size, in usize.
InvalidLength(len, isz) == len # Shl(1, isz, UsizeBits)

\* Lines 89-95: the locals and, under debug_assertions, the length check.
\* The panic the entry raises, or NoFailure.
BoolArrayValidation(len, dbg, ovf) ==
    IF ~dbg THEN NoFailure
    ELSE IF ovf /\ ShiftOverflows(TrailingZeros(len), UsizeBits)
         THEN Panic("shift_overflow", 93)
    ELSE IF InvalidLength(len, TrailingZeros(len)) THEN Panic("invalid_length", 94)
    ELSE NoFailure

\* Line 99: the bound 1 << input_size of the `while`.
BoolArrayLimit(isz) == Shl(1, isz, UsizeBits)

\* Line 100: target = source + blocksize.
BoolArrayTarget(src, bs) == Add(src, bs, UsizeBits)

\* Mutant of BoolArrayBody: `=` for `^=`.
MutBoolArrayBodyAssign(t, src, tgt, ii) == [t EXCEPT ![tgt + ii] = t[src + ii]]

\* Line 102: rule_truth_table[target + i] ^= rule_truth_table[source + i].
BoolArrayBody(t, src, tgt, ii) ==
    [t EXCEPT ![tgt + ii] = BoolXor(t[tgt + ii], t[src + ii])]

\* Line 102: the slice's bounds check, which panics in every build.
BoolArrayBodyFailure(len, src, tgt, ii) ==
    IF src + ii >= len \/ tgt + ii >= len
    THEN Panic("index_out_of_bounds", 102)
    ELSE NoFailure

\* Line 104: source + (blocksize << 1).
BoolArrayNextSource(src, bs) == Add(src, Shl(bs, 1, UsizeBits), UsizeBits)

\* Line 106: blocksize << 1.
BoolArrayNextBlocksize(bs) == Shl(bs, 1, UsizeBits)

\* ---------------------------------------------------------------- state
config == <<op, width, debug_assertions, overflow_checks, input_rule,
            input_table, num_variables_function>>

locals == <<input_size, blocksize, final_f, source, target, i, pass>>

ghost == <<steps, written, srcread, pass_in, table_in>>

\* The slice with no element.
EmptyTable == [p \in {} |-> FALSE]

\* v < 2^(2^n), without computing 2^(2^n).
InDomain(v, n) == \A p \in 0 .. 29 : p >= Pow2(n) => (v \div Pow2(p)) % 2 = 0

\* The inputs of one run.  "unsigned": the packed transform, twice, on any
\* rule number U can hold.  "bool_array": the array transform, twice, on any
\* slice.  "both": the packed transform and then the array transform on the
\* two encodings of one truth table.  The build is one of Cargo's two
\* profiles: dev (debug_assertions and overflow-checks) or release (neither).
Init ==
    /\ op \in {"unsigned", "bool_array", "both"}
    /\ debug_assertions \in BOOLEAN
    /\ overflow_checks = debug_assertions
    /\ \/ /\ op = "unsigned"
          /\ width \in Widths
          /\ num_variables_function \in 0 .. MaxVars
          /\ input_rule \in 0 .. Min(MaxRule, Pow2(width) - 1)
          /\ input_table = EmptyTable
       \/ /\ op = "bool_array"
          /\ width = 8
          /\ num_variables_function = 0
          /\ input_rule = 0
          /\ \E len \in 0 .. MaxLen : input_table \in [0 .. len - 1 -> BOOLEAN]
       \/ /\ op = "both"
          /\ width \in Widths
          /\ num_variables_function \in 0 .. MaxVars
          /\ Pow2(num_variables_function) <= Min(width, MaxLen)
          /\ input_rule \in 0 .. Min(MaxRule, Pow2(width) - 1)
          /\ InDomain(input_rule, num_variables_function)
          /\ input_table = BitsOf(input_rule, num_variables_function)
    /\ rule_number = input_rule
    /\ rule_truth_table = input_table
    /\ input_size = 0 /\ blocksize = 0 /\ final_f = 0
    /\ source = 0 /\ target = 0 /\ i = 0 /\ pass = 0
    /\ pc = IF op = "bool_array" THEN "bool_array_entry" ELSE "unsigned_entry"
    /\ calls = 0
    /\ ret = NoValue
    /\ failure = NoFailure
    /\ steps = 0 /\ written = <<>> /\ srcread = {}
    /\ pass_in = EmptyTable /\ table_in = EmptyTable

\* A panic unwinds out of the call: nothing else changes.
Fail(f) ==
    /\ pc' = "panic"
    /\ failure' = f
    /\ UNCHANGED <<config, locals, ghost, rule_number, rule_truth_table, calls, ret>>

\* Lines 37-52: entry of the packed transform.
UnsignedEntry ==
    /\ pc = "unsigned_entry"
    /\ LET f == UnsignedValidation(rule_number, num_variables_function, width,
                                   debug_assertions, overflow_checks)
       IN  IF f # NoFailure
           THEN /\ pc' = "panic"
                /\ failure' = f
                /\ steps' = 0
                /\ UNCHANGED <<locals, written, srcread, pass_in, table_in>>
           ELSE /\ blocksize' = 1
                /\ final_f' = rule_number
                /\ pass' = 0
                /\ pc' = "unsigned_for"
                /\ steps' = 0
                /\ written' = <<>>
                /\ srcread' = {}
                /\ table_in' = BitsOf(rule_number, num_variables_function)
                /\ pass_in' = BitsOf(rule_number, num_variables_function)
                /\ UNCHANGED <<input_size, source, target, i, failure>>
    /\ UNCHANGED <<config, rule_number, rule_truth_table, calls, ret>>

\* Lines 53 and 72: the head of `for _ in 0..num_variables_function`, and the
\* return of final_f once the passes are done.
UnsignedFor ==
    /\ pc = "unsigned_for"
    /\ IF pass < num_variables_function
       THEN /\ source' = 0
            /\ pc' = "unsigned_while"
            /\ written' = <<>>
            /\ srcread' = {}
            /\ pass_in' = BitsOf(final_f, num_variables_function)
            /\ UNCHANGED <<ret, calls>>
       ELSE /\ ret' = final_f
            /\ calls' = calls + 1
            /\ pc' = "unsigned_returned"
            /\ UNCHANGED <<source, written, srcread, pass_in>>
    /\ UNCHANGED <<config, rule_number, rule_truth_table, failure, input_size,
                   blocksize, final_f, target, i, pass, steps, table_in>>

\* Lines 55-56 and 70: the head of the `while`, the target of the block, and
\* the doubling of blocksize when the pass is over.
UnsignedWhile ==
    /\ pc = "unsigned_while"
    /\ IF overflow_checks /\ ShiftOverflows(num_variables_function, width)
       THEN Fail(Panic("shift_overflow", 55))
       ELSE IF source < UnsignedLimit(num_variables_function, width)
       THEN IF overflow_checks /\ AddOverflows(source, blocksize, width)
            THEN Fail(Panic("add_overflow", 56))
            ELSE /\ target' = UnsignedTarget(source, blocksize, width)
                 /\ i' = 0
                 /\ pc' = "unsigned_inner"
                 /\ UNCHANGED <<blocksize, pass>>
                 /\ UNCHANGED <<config, ghost, rule_number, rule_truth_table, calls,
                                ret, failure, input_size, final_f, source>>
       ELSE /\ blocksize' = UnsignedNextBlocksize(blocksize, width)
            /\ pass' = pass + 1
            /\ pc' = "unsigned_for"
            /\ UNCHANGED <<target, i>>
            /\ UNCHANGED <<config, ghost, rule_number, rule_truth_table, calls,
                           ret, failure, input_size, final_f, source>>

\* Lines 57-68: one body of `for i in 0..blocksize`, or, past the last
\* offset, the step of source to the next block.
UnsignedInner ==
    /\ pc = "unsigned_inner"
    /\ IF i < blocksize
       THEN LET f == UnsignedBodyFailure(source, target, i, width, overflow_checks)
            IN  IF f # NoFailure
                THEN /\ pc' = "panic"
                     /\ failure' = f
                     /\ steps' = steps + 1
                     /\ UNCHANGED <<final_f, i, source, written, srcread>>
                ELSE /\ final_f' = UnsignedBody(final_f, source, target, i, width)
                     /\ i' = i + 1
                     /\ steps' = steps + 1
                     /\ written' = Append(written, Add(target, i, width))
                     /\ srcread' = srcread \cup {Add(source, i, width)}
                     /\ UNCHANGED <<pc, failure, source>>
       ELSE IF overflow_checks
               /\ AddOverflows(source, Shl(blocksize, 1, width), width)
            THEN /\ pc' = "panic"
                 /\ failure' = Panic("add_overflow", 68)
                 /\ UNCHANGED <<final_f, i, source, steps, written, srcread>>
            ELSE /\ source' = UnsignedNextSource(source, blocksize, width)
                 /\ pc' = "unsigned_while"
                 /\ UNCHANGED <<final_f, i, failure, steps, written, srcread>>
    /\ UNCHANGED <<config, rule_number, rule_truth_table, calls, ret, input_size,
                   blocksize, target, pass, pass_in, table_in>>

\* Lines 88-95: entry of the array transform.
BoolArrayEntry ==
    /\ pc = "bool_array_entry"
    /\ LET f == BoolArrayValidation(Length(rule_truth_table), debug_assertions,
                                    overflow_checks)
       IN  IF f # NoFailure
           THEN /\ pc' = "panic"
                /\ failure' = f
                /\ steps' = 0
                /\ table_in' = rule_truth_table
                /\ UNCHANGED <<locals, written, srcread, pass_in>>
           ELSE /\ blocksize' = 1
                /\ input_size' = TrailingZeros(Length(rule_truth_table))
                /\ pass' = 0
                /\ pc' = "bool_array_for"
                /\ steps' = 0
                /\ written' = <<>>
                /\ srcread' = {}
                /\ table_in' = rule_truth_table
                /\ pass_in' = rule_truth_table
                /\ UNCHANGED <<final_f, source, target, i, failure>>
    /\ UNCHANGED <<config, rule_number, rule_truth_table, calls, ret>>

\* Lines 97 and 108: the head of `for _ in 0..input_size`, and the return
\* once the passes are done.
BoolArrayFor ==
    /\ pc = "bool_array_for"
    /\ IF pass < input_size
       THEN /\ source' = 0
            /\ pc' = "bool_array_while"
            /\ written' = <<>>
            /\ srcread' = {}
            /\ pass_in' = rule_truth_table
            /\ UNCHANGED calls
       ELSE /\ calls' = calls + 1
            /\ pc' = "bool_array_returned"
            /\ UNCHANGED <<source, written, srcread, pass_in>>
    /\ UNCHANGED <<config, rule_number, rule_truth_table, failure, ret, input_size,
                   blocksize, final_f, target, i, pass, steps, table_in>>

\* Lines 99-100 and 106: the head of the `while`, the target of the block,
\* and the doubling of blocksize when the pass is over.
BoolArrayWhile ==
    /\ pc = "bool_array_while"
    /\ IF overflow_checks /\ ShiftOverflows(input_size, UsizeBits)
       THEN Fail(Panic("shift_overflow", 99))
       ELSE IF source < BoolArrayLimit(input_size)
       THEN /\ target' = BoolArrayTarget(source, blocksize)
            /\ i' = 0
            /\ pc' = "bool_array_inner"
            /\ UNCHANGED <<blocksize, pass>>
            /\ UNCHANGED <<config, ghost, rule_number, rule_truth_table, calls,
                           ret, failure, input_size, final_f, source>>
       ELSE /\ blocksize' = BoolArrayNextBlocksize(blocksize)
            /\ pass' = pass + 1
            /\ pc' = "bool_array_for"
            /\ UNCHANGED <<target, i>>
            /\ UNCHANGED <<config, ghost, rule_number, rule_truth_table, calls,
                           ret, failure, input_size, final_f, source>>

\* Lines 101-104: one body of `for i in 0..blocksize`, or, past the last
\* offset, the step of source to the next block.
BoolArrayInner ==
    /\ pc = "bool_array_inner"
    /\ IF i < blocksize
       THEN LET f == BoolArrayBodyFailure(Length(rule_truth_table), source, target, i)
            IN  IF f # NoFailure
                THEN /\ pc' = "panic"
                     /\ failure' = f
                     /\ steps' = steps + 1
                     /\ UNCHANGED <<rule_truth_table, i, source, written, srcread>>
                ELSE /\ rule_truth_table' =
                            BoolArrayBody(rule_truth_table, source, target, i)
                     /\ i' = i + 1
                     /\ steps' = steps + 1
                     /\ written' = Append(written, target + i)
                     /\ srcread' = srcread \cup {source + i}
                     /\ UNCHANGED <<pc, failure, source>>
       ELSE /\ source' = BoolArrayNextSource(source, blocksize)
            /\ pc' = "bool_array_while"
            /\ UNCHANGED <<rule_truth_table, i, failure, steps, written, srcread>>
    /\ UNCHANGED <<config, rule_number, calls, ret, input_size, final_f,
                   blocksize, target, pass, pass_in, table_in>>

\* What the caller does with a call that returned: "unsigned" feeds the
\* returned value to a second packed call, "bool_array" passes the mutated
\* slice to a second array call, "both" goes on to the array transform.
Caller ==
    /\ pc \in {"unsigned_returned", "bool_array_returned"}
    /\ IF op = "unsigned" /\ calls < 2
       THEN pc' = "unsigned_entry" /\ rule_number' = ret
       ELSE IF op = "bool_array" /\ calls < 2
       THEN pc' = "bool_array_entry" /\ UNCHANGED rule_number
       ELSE IF op = "both" /\ pc = "unsigned_returned"
       THEN pc' = "bool_array_entry" /\ UNCHANGED rule_number
       ELSE pc' = "done" /\ UNCHANGED rule_number
    /\ UNCHANGED <<config, locals, ghost, rule_truth_table, calls, ret, failure>>

Next ==
    \/ UnsignedEntry
    \/ UnsignedFor
    \/ UnsignedWhile
    \/ UnsignedInner
    \/ BoolArrayEntry
    \/ BoolArrayFor
    \/ BoolArrayWhile
    \/ BoolArrayInner
    \/ Caller

Spec == Init /\ [][Next]_vars

\* ------------------------------------------------------ vocabulary of the claims
UnsignedPcs == {"unsigned_for", "unsigned_while", "unsigned_inner", "unsigned_returned"}

BoolArrayPcs ==
    {"bool_array_for", "bool_array_while", "bool_array_inner", "bool_array_returned"}

\* Bit p of the number x.
IdxBit(x, p) == p < 30 /\ (x \div Pow2(p)) % 2 = 1

IsPowerOfTwo(len) == \E k \in 0 .. 30 : len = Pow2(k)

\* The packed call's preconditions: U holds 2^n bits and rule < 2^(2^n).
ValidUnsigned(rule, n) == Pow2(n) <= width /\ InDomain(rule, n)

\* The running call is past its entry and was given a valid input.
CallValid ==
    \/ pc \in UnsignedPcs /\ ValidUnsigned(rule_number, num_variables_function)
    \/ pc \in BoolArrayPcs /\ IsPowerOfTwo(Length(rule_truth_table))

\* The number of variables of the running call.
NVars == IF pc \in UnsignedPcs THEN num_variables_function ELSE input_size

\* The table the running call works on.
CurTable ==
    IF pc \in UnsignedPcs THEN BitsOf(final_f, num_variables_function)
    ELSE rule_truth_table

Range(seq) == {seq[k] : k \in 1 .. Len(seq)}

Odd(S) == Cardinality(S) % 2 = 1

\* j AND x = j on bits lo .. hi-1.
SubsetOn(j, x, lo, hi) == \A b \in lo .. hi - 1 : IdxBit(j, b) => IdxBit(x, b)

\* j and x agree on bits lo .. hi-1.
AgreeOn(j, x, lo, hi) == \A b \in lo .. hi - 1 : IdxBit(j, b) = IdxBit(x, b)

\* The XOR of the entries of t at the indices j whose low k bits are a subset
\* of those of x and whose bits k .. n-1 are those of x.
PartialZeta(t, x, k, n) ==
    Odd({j \in DOMAIN t : t[j] /\ SubsetOn(j, x, 0, k) /\ AgreeOn(j, x, k, n)})

\* ------------------------------------------------------------------ claims
\* C1: for a valid packed input, every bit `index` of the value returned by
\* fast_bool_anf_transform_unsigned is the XOR of the bits of rule_number at
\* the positions j that are bitwise subsets of index.
C1_SubsetXor ==
    (pc = "unsigned_returned" /\ ValidUnsigned(rule_number, num_variables_function))
    => \A index \in 0 .. Pow2(num_variables_function) - 1 :
          IdxBit(ret, index)
          = Odd({j \in 0 .. Pow2(num_variables_function) - 1 :
                    IdxBit(rule_number, j)
                    /\ SubsetOn(j, index, 0, num_variables_function)})

C1_Witness ==
    /\ pc = "unsigned_returned"
    /\ width = 8 /\ num_variables_function = 3
    /\ rule_number = 240 /\ ret = 16

\* C2: when the packed value and the slice encode the same truth table, the
\* value the packed transform returns and the slice the array transform
\* leaves hold the same table, bit i set iff element i true.
C2_Equivalence ==
    (op = "both" /\ pc = "bool_array_returned")
    => /\ DOMAIN rule_truth_table = 0 .. Pow2(num_variables_function) - 1
       /\ \A p \in DOMAIN rule_truth_table : IdxBit(ret, p) = rule_truth_table[p]

C2_Witness ==
    /\ op = "both" /\ pc = "bool_array_returned"
    /\ num_variables_function = 3 /\ input_rule = 30
    /\ ret = 30 /\ rule_truth_table[1] /\ ~rule_truth_table[7]

\* C3: both transforms are involutions: the second packed call returns the
\* first call's valid input, and the second array call leaves a slice of
\* power-of-two length as it was before the first.
C3_Involution ==
    /\ (op = "unsigned" /\ pc = "unsigned_returned" /\ calls = 2
        /\ ValidUnsigned(input_rule, num_variables_function))
       => ret = input_rule
    /\ (op = "bool_array" /\ pc = "bool_array_returned" /\ calls = 2
        /\ IsPowerOfTwo(Length(input_table)))
       => rule_truth_table = input_table

C3_Witness ==
    /\ op = "unsigned" /\ pc = "unsigned_returned" /\ calls = 2
    /\ num_variables_function = 3 /\ input_rule = 240
    /\ rule_number = 16 /\ ret = 240

\* C4: for every width and every n with 2^n <= width, the boundary 2^n = width
\* included, and every rule_number < 2^(2^n), the packed call raises no
\* failure, in its validation or in its butterfly.
C4_NoFailureOnValidInput ==
    (op = "unsigned" /\ ValidUnsigned(input_rule, num_variables_function))
    => pc # "panic"

\* C5: with validation active, a packed call whose type is narrower than 2^n
\* bits or whose rule_number is 2^(2^n) or more fails at its entry: no body of
\* the butterfly has begun, no position was read or written, nothing returned.
C5_InvalidUnsignedFailsFirst ==
    (op = "unsigned" /\ debug_assertions
     /\ ~ValidUnsigned(rule_number, num_variables_function))
    => \/ pc = "unsigned_entry" /\ calls = 0
       \/ /\ pc = "panic"
          /\ failure = IF width < Pow2(num_variables_function)
                       THEN Panic("not_enough_bits", 43)
                       ELSE Panic("rule_number_too_large", 48)
          /\ steps = 0 /\ written = <<>> /\ srcread = {}
          /\ final_f = 0 /\ calls = 0 /\ ret = NoValue

C5_Witness ==
    /\ pc = "panic" /\ debug_assertions
    /\ rule_number = 16 /\ num_variables_function = 2
    /\ failure = Panic("rule_number_too_large", 48)

\* C6: with validation active, an array call on a slice whose length is not
\* a power of two fails at its entry, and the slice then still holds its
\* original elements.
C6_InvalidLengthFailsFirst ==
    (op = "bool_array" /\ debug_assertions /\ ~IsPowerOfTwo(Length(input_table)))
    => /\ rule_truth_table = input_table
       /\ \/ pc = "bool_array_entry" /\ calls = 0
          \/ /\ pc = "panic"
             /\ failure \in {Panic("invalid_length", 94), Panic("shift_overflow", 93)}
             /\ steps = 0 /\ written = <<>> /\ calls = 0

C6_Witness ==
    /\ pc = "panic" /\ debug_assertions
    /\ Length(input_table) = 7 /\ input_table[6]
    /\ failure = Panic("invalid_length", 94)

\* C7: for every valid input of either transform the output at index 0 is the
\* input at index 0, and no pass writes index 0.
C7_ConstantTerm ==
    /\ CallValid => 0 \notin Range(written)
    /\ (CallValid /\ pc = "unsigned_returned")
       => IdxBit(ret, 0) = IdxBit(rule_number, 0)
    /\ (CallValid /\ pc = "bool_array_returned" /\ Length(rule_truth_table) > 0)
       => rule_truth_table[0] = table_in[0]

C7_Witness ==
    /\ pc = "unsigned_returned" /\ calls = 1
    /\ num_variables_function = 2 /\ rule_number = 1 /\ ret = 15

\* C8: when k passes have completed, blocksize is 2^k and the entry at every
\* index x is the XOR of the call's input entries at the indices j that agree
\* with x on bits k .. n-1 and whose low k bits are a subset of those of x.
C8_PassInvariant ==
    (CallValid /\ pc \in {"unsigned_for", "bool_array_for"})
    => /\ blocksize = Pow2(pass)
       /\ pass <= NVars
       /\ \A x \in DOMAIN CurTable :
             CurTable[x] = PartialZeta(table_in, x, pass, NVars)

C8_Witness ==
    /\ pc = "unsigned_for" /\ pass = 2 /\ blocksize = 4
    /\ num_variables_function = 3 /\ rule_number = 30 /\ final_f = 254

\* C9: within one pass every index is written at most once, every written
\* index has bit log2(blocksize) set, every index read as a source has it
\* clear and is not written, so the table is the pass's input with each
\* written entry XORed with the pass's input at its source, whatever the
\* order of the updates.
C9_DisjointUpdates ==
    (CallValid /\ pc \in {"unsigned_while", "unsigned_inner",
                          "bool_array_while", "bool_array_inner"})
    => /\ blocksize = Pow2(pass)
       /\ \A a, b \in 1 .. Len(written) : a # b => written[a] # written[b]
       /\ \A p \in Range(written) : IdxBit(p, pass)
       /\ \A p \in srcread : ~IdxBit(p, pass) /\ p \notin Range(written)
       /\ \A x \in DOMAIN CurTable :
             CurTable[x] = IF x \in Range(written)
                           THEN pass_in[x] # pass_in[x - blocksize]
                           ELSE pass_in[x]

C9_Witness ==
    /\ pc = "unsigned_while" /\ pass = 1 /\ Len(written) = 4
    /\ num_variables_function = 3 /\ rule_number = 30
    /\ srcread = {0, 1, 4, 5} /\ Range(written) = {2, 3, 6, 7}

\* C10: for every valid input every position the butterfly reads or writes
\* is below 2^n, so the slice is never indexed past its end and the packed
\* value is never shifted by its width or more; the packed working value
\* keeps every bit at 2^n and above clear, and so does the returned value.
C10_PositionsInRange ==
    /\ CallValid
       => /\ \A p \in Range(written) \cup srcread : p < Pow2(NVars)
          /\ (pc \in {"unsigned_inner", "bool_array_inner"} /\ i < blocksize)
             => /\ target + i < Pow2(NVars)
                /\ source + i < Pow2(NVars)
                /\ pc = "unsigned_inner" => target + i < width
                /\ pc = "bool_array_inner" => target + i < Length(rule_truth_table)
          /\ pc \in UnsignedPcs => InDomain(final_f, num_variables_function)
          /\ pc = "unsigned_returned" => InDomain(ret, num_variables_function)
    /\ (pc = "panic" /\ failure.line \in 53 .. 72)
       => ~ValidUnsigned(rule_number, num_variables_function)
    /\ (pc = "panic" /\ failure.line \in 97 .. 107)
       => ~IsPowerOfTwo(Length(rule_truth_table))

C10_Witness ==
    /\ CallValid /\ pc = "unsigned_inner" /\ i < blocksize
    /\ width = 8 /\ num_variables_function = 3
    /\ target + i = 7 /\ rule_number = 129
====
